---- MODULE Spec2Model ----
(***************************************************************************)
(* The frame pipeline of the tomato quality checker: capture_loop publishes *)
(* the newest camera frame in last_frame, gen_frames (the MJPEG stream) and *)
(* process_camera (the /process route) read it.  Two variants are modelled: *)
(*   "opt"   optimized_with_local_upload.py  (lock + frame_ready Event)     *)
(*   "basic" with_local_upload.py            (lock only)                    *)
(* A frame is a buffer of FrameLen cells; the n-th successful acquisition   *)
(* fills a buffer with the marker n in every cell, so that a reader that    *)
(* mixes two publications is visible.                                       *)
(***************************************************************************)
EXTENDS Integers, Sequences, FiniteSets

\* ---- bounds of the model: successful acquisitions, cells of a frame
MaxPub == 3
FrameLen == 2

\* ---- the value of last_frame before the first publish (no buffer has this id)
None == -1

\* ---- frame_buffer = np.zeros((480, 640, 3)): the pre-allocated array, buffer 0
frame_buffer == 0

Variants == {"opt", "basic"}
\* ---- the clients: two /video streams and one client of /process, which calls
\* it again and again.  The safety properties below also hold with a third stream
\* and with a second /process client (about 2.9 and 2.5 million states).
Streams == {1, 2}
Procs == {1}
Buffers == 0..MaxPub
Cells == 1..FrameLen

Free == <<"free", 0>>
CapT == <<"cap", 0>>
GenT(g) == <<"gen", g>>
ProcT(p) == <<"proc", p>>

VARIABLES
  variant,      \* which of the two programs runs
  buf,          \* the heap: buffer id -> its cells
  nextSeq,      \* number of the next successful acquisition
  capPc,        \* capture_loop: position
  capFrame,     \* capture_loop: local variable frame (a buffer id)
  last_frame,   \* the register: None or a buffer id
  frame_ready,  \* the Event's flag (stays FALSE in "basic", which has none)
  lock,         \* holder of lock, or Free
  published,    \* history: the numbers of the acquisitions whose store has completed
  gPc,          \* gen_frames consumers: position
  gFrame,       \* gen_frames: local variable frame (a buffer id), None between iterations
  gCells,       \* gen_frames: the cells read so far by cvtColor / imencode
  gLast,        \* history: marker of the last payload the consumer emitted
  pPc,          \* process_camera calls: position
  pRef,         \* process_camera: the array last_frame.copy() reads, None between calls
  pCells,       \* process_camera: image_rgb, the cells copied so far
  pOut,         \* outcome of the last completed call
  pLast,        \* history: marker of the last frame a call obtained
  uFile,        \* upload_image: what the request carries ("absent", "bytes", "image")
  uPc,          \* upload_image: position
  uOut,         \* upload_image: outcome of the last request
  image,        \* calculate: its argument, an RGB frame [h, w, px]
  color_ranges, \* calculate: self.color_ranges of the calculator instance
  hsv,          \* _mask: local hsv, the converted pixels
  combined,     \* _mask: local combined, the mask built so far
  masks,        \* calculate: unripe_mask, ripe_mask, transitional_mask
  cGrp,         \* calculate: the group whose _mask call is running (1..3)
  cKeys,        \* _mask: the keys the for loop has still to visit
  counts,       \* calculate: locals total, unripe, ripe, transitional
  cPc,          \* calculate: position
  result,       \* calculate: what the last call returned or raised
  uploaded_images, \* hsv_picker: the dict image_id -> image
  nextId,       \* hsv_picker: the number of the next uuid4 drawn
  issued,       \* history: the image_ids upload_file has returned to a client
  fOut,         \* hsv_picker upload_file: the last response
  qReq,         \* hsv_picker get_color_at_coordinate: the last request's JSON
  qOut          \* hsv_picker get_color_at_coordinate: the last response

upVars == <<uFile, uPc, uOut>>
classVars == <<image, color_ranges, hsv, combined, masks, cGrp, cKeys, counts, cPc, result>>
pickVars == <<uploaded_images, nextId, issued, fOut, qReq, qOut>>

vars == <<variant, buf, nextSeq, capPc, capFrame, last_frame, frame_ready, lock,
          published, gPc, gFrame, gCells, gLast, pPc, pRef, pCells, pOut, pLast,
          upVars, classVars, pickVars>>

\* everything capture_loop, gen_frames and process_camera work on
pipeVars == <<variant, buf, nextSeq, capPc, capFrame, last_frame, frame_ready, lock,
              published, gPc, gFrame, gCells, gLast, pPc, pRef, pCells, pOut, pLast>>

capVars == <<nextSeq, capPc, capFrame>>
genVars == <<gPc, gFrame, gCells, gLast>>
procVars == <<pPc, pRef, pCells, pOut, pLast>>

\* ---- helpers
Filled(m) == [c \in Cells |-> m]

\* the marker of a fully read frame: its common cell value, or -1 when torn
Marker(cells) == IF \E m \in 0..(MaxPub + 1) : cells = Filled(m)
                 THEN cells[1] ELSE -1

Last(s) == IF s = <<>> THEN None ELSE s[Len(s)]

\* a capture that writes every frame into the pre-allocated frame_buffer
capture_array_into_frame_buffer == frame_buffer

\* picam2.capture_array() returns a new array for every frame: buffer n for the
\* n-th acquisition (frame_buffer is never passed to it)
capture_array == nextSeq


\* ------------------------------------------------ UnripePercentageCalculator
\* the three groups calculate passes to _mask, in its order
GroupKeys(g) ==
  CASE g = 1 -> <<"unripe_green", "unripe_whitish", "unripe_light_red">>
    [] g = 2 -> <<"ripe_red", "ripe_dark_red">>
    [] g = 3 -> <<"transitional_yellow", "transitional_light_red">>

RangeNames ==
  {"unripe_green", "unripe_whitish", "unripe_light_red", "ripe_red",
   "ripe_dark_red", "transitional_yellow", "transitional_light_red"}

\* self.color_ranges as __init__ sets it: name -> <<lower, upper>>, each (H, S, V)
ConfiguredRanges ==
  [k \in RangeNames |->
     CASE k = "unripe_green"           -> << <<30, 30, 50>>,  <<80, 255, 200>> >>
       [] k = "unripe_whitish"         -> << <<0, 0, 100>>,   <<180, 50, 200>> >>
       [] k = "unripe_light_red"       -> << <<0, 30, 100>>,  <<15, 100, 200>> >>
       [] k = "ripe_red"               -> << <<0, 50, 50>>,   <<10, 255, 255>> >>
       [] k = "ripe_dark_red"          -> << <<170, 50, 50>>, <<180, 255, 255>> >>
       [] k = "transitional_yellow"    -> << <<15, 50, 50>>,  <<30, 255, 255>> >>
       [] k = "transitional_light_red" -> << <<0, 20, 100>>,  <<20, 80, 255>> >>]

Max3(a, b, c) == IF a >= b /\ a >= c THEN a ELSE IF b >= c THEN b ELSE c
Min3(a, b, c) == IF a <= b /\ a <= c THEN a ELSE IF b <= c THEN b ELSE c

\* a / b rounded to the nearest integer, as the tables of cv2's 8-bit conversion are
RoundDiv(a, b) == (2 * a + b) \div (2 * b)

\* a conversion that reads its input as B, G, R (cv2.COLOR_BGR2HSV)
BGR2HSV(px) ==
  LET r == px[3]  g == px[2]  b == px[1]
      v == Max3(r, g, b)
      diff == v - Min3(r, g, b)
      sdiv == IF v = 0 THEN 0 ELSE RoundDiv(255 * 4096, v)
      hdiv == IF diff = 0 THEN 0 ELSE RoundDiv(180 * 4096, 6 * diff)
      sat == (diff * sdiv + 2048) \div 4096
      hraw == IF v = r THEN g - b
              ELSE IF v = g THEN b - r + 2 * diff ELSE r - g + 4 * diff
      hue == (hraw * hdiv + 2048) \div 4096
  IN  << IF hue < 0 THEN hue + 180 ELSE hue, sat, v >>

\* cv2.cvtColor(image, cv2.COLOR_RGB2HSV) on one 8-bit pixel <<R, G, B>>: the
\* fixed-point arithmetic of OpenCV (shift 12, hue on the half scale 0..179)
RGB2HSV(px) ==
  LET r == px[1]  g == px[2]  b == px[3]
      v == Max3(r, g, b)
      diff == v - Min3(r, g, b)
      sdiv == IF v = 0 THEN 0 ELSE RoundDiv(255 * 4096, v)
      hdiv == IF diff = 0 THEN 0 ELSE RoundDiv(180 * 4096, 6 * diff)
      sat == (diff * sdiv + 2048) \div 4096
      hraw == IF v = r THEN g - b
              ELSE IF v = g THEN b - r + 2 * diff ELSE r - g + 4 * diff
      hue == (hraw * hdiv + 2048) \div 4096
  IN  << IF hue < 0 THEN hue + 180 ELSE hue, sat, v >>

\* an inRange whose upper bound is exclusive
inRange_exclusive(x, lower, upper) ==
  IF \A c \in 1..3 : lower[c] <= x[c] /\ x[c] < upper[c] THEN 255 ELSE 0

\* cv2.inRange(hsv, lower, upper) on one pixel: 255 when every channel lies
\* within its bounds, both included, else 0
inRange(x, lower, upper) ==
  IF \A c \in 1..3 : lower[c] <= x[c] /\ x[c] <= upper[c] THEN 255 ELSE 0

\* combined |= mask on one uint8 cell
BitOr(a, b) == IF a = 255 \/ b = 255 THEN 255 ELSE a + b - (IF a = b THEN a ELSE 0)

\* a count that adds the mask's values up: np.sum(mask)
SumOfMask(mask) ==
  255 * Cardinality({i \in DOMAIN mask : mask[i] > 0})

\* np.sum(mask > 0)
CountNonZero(mask) ==
  Cardinality({i \in DOMAIN mask : mask[i] > 0})

\* round(count / total * 100, 2) in hundredths of a percent (Python rounds an
\* exact tie to the even neighbour)
Pct(count, total) ==
  LET a == count * 10000
      f == a \div total
      r == a % total
  IN  IF 2 * r < total THEN f
      ELSE IF 2 * r > total THEN f + 1
      ELSE IF f % 2 = 0 THEN f ELSE f + 1

\* image.shape[0] * image.shape[1]
TotalPixels(img) == img.h * img.w

\* ---- the frames given to calculate
MaxPixels == 2

\* 8-bit RGB pixels: red, green, a yellow on the border of two ranges, grey, black,
\* a light red, a dark red, a clear yellow
Palette ==
  { <<255, 0, 0>>, <<0, 150, 0>>, <<200, 200, 0>>, <<150, 150, 150>>, <<0, 0, 0>>,
    <<150, 121, 115>>, <<200, 0, 30>>, <<255, 200, 0>> }

Shapes ==
  {sh \in (0..MaxPixels) \X (0..MaxPixels) : sh[1] * sh[2] <= MaxPixels}

Uniform(h, w, c) == [h |-> h, w |-> w, px |-> [i \in 1..(h * w) |-> c]]

\* every frame of a shape within the bound, and the 10 x 10 frames of one colour
Images ==
  UNION {{[h |-> sh[1], w |-> sh[2], px |-> q] : q \in [1..(sh[1] * sh[2]) -> Palette]}
           : sh \in Shapes}
  \cup {Uniform(10, 10, c) : c \in Palette}

NoImage == [h |-> 0, w |-> 0, px |-> <<>>]

\* what a call of calculate left behind: the dict it returned (percentages in
\* hundredths), or the exception that left it, or nothing yet
Returned(u, r, t, n) ==
  [outcome |-> "results", unripe_pct |-> u, ripe_pct |-> r, transitional_pct |-> t,
   total_pixels |-> n]
Raised(e) ==
  [outcome |-> e, unripe_pct |-> 0, ripe_pct |-> 0, transitional_pct |-> 0,
   total_pixels |-> 0]
NoResult == Raised("none")

\* the first blocking statement of gen_frames' loop body:
\* frame_ready.wait() in "opt", with lock: in "basic"
LoopHead(v) == IF v = "opt" THEN "wait" ELSE "acquire"

\* the module globals after import, and no request in progress
PipeInit ==
  /\ variant \in Variants
  /\ buf = [b \in Buffers |-> Filled(0)]
  /\ nextSeq = 1
  /\ capPc = "capture"
  /\ capFrame = None
  /\ last_frame = None
  /\ frame_ready = FALSE
  /\ lock = Free
  /\ published = <<>>
  /\ gPc = [g \in Streams |-> LoopHead(variant)]
  /\ gFrame = [g \in Streams |-> None]
  /\ gCells = [g \in Streams |-> <<>>]
  /\ gLast = [g \in Streams |-> 0]
  /\ pPc = [p \in Procs |-> "idle"]
  /\ pRef = [p \in Procs |-> None]
  /\ pCells = [p \in Procs |-> <<>>]
  /\ pOut = [p \in Procs |-> "none"]
  /\ pLast = [p \in Procs |-> 0]
  /\ uFile = "none"
  /\ uPc = "idle"
  /\ uOut = "none"

\* no call of calculate in progress
ClassIdle ==
  /\ image = NoImage
  /\ color_ranges = ConfiguredRanges
  /\ hsv = <<>>
  /\ combined = <<>>
  /\ masks = <<>>
  /\ cGrp = 0
  /\ cKeys = <<>>
  /\ counts = <<>>
  /\ cPc = "idle"
  /\ result = NoResult

\* ------------------------------------------------------------ hsv_picker.py
\* ---- bounds: successful uploads, and the sides of an uploaded image
MaxUploads == 2
MaxSide == 2

\* BGR pixels as cv2.imdecode delivers them: red, green, a light red
PickColours == << <<0, 0, 255>>, <<0, 150, 0>>, <<115, 121, 150>> >>

\* the decoded image of a file of height h and width w; its pixels differ from one
\* position to the next
PickImage(h, w) ==
  [h |-> h, w |-> w, px |-> [i \in 1..(h * w) |-> PickColours[((i - 1) % 3) + 1]]]

\* what a POST to /upload of hsv_picker can carry: no "file" part, a file with an
\* empty filename, bytes that are no image, an image
PickUploads ==
  {[kind |-> k, img |-> NoImage] : k \in {"absent", "noname", "bytes"}}
  \cup {[kind |-> "image", img |-> PickImage(h, w)] : h \in 1..MaxSide, w \in 1..MaxSide}

\* the value of "x" or "y" in the request's JSON: a number (kept as twice its
\* value, so halves are numbers too), a string that is no number, or no such key
RawCoords ==
  {<<"num", t>> : t \in (-2)..(2 * MaxSide + 1)} \cup {<<"str", 0>>, <<"missing", 0>>}

\* int(v) raises for a string that is no number
CanInt(raw) == raw[1] # "str"

\* int(data.get('x', 0)): the default 0 for a missing key, and truncation toward
\* zero for a number
PyInt(raw) ==
  IF raw[1] = "missing" THEN 0
  ELSE IF raw[2] >= 0 THEN raw[2] \div 2 ELSE -((-raw[2]) \div 2)

\* the image_ids a request can name: 0 for a missing or unknown id, and the uuids
\* drawn so far or later
RequestIds == 0..(MaxUploads + 1)

\* a uuid source that can return the previous uuid again
uuid4_repeated == IF nextId > 1 THEN nextId - 1 ELSE nextId

\* str(uuid.uuid4()): an id no earlier call returned
uuid4 == nextId

UploadError(e) == [outcome |-> e, image_id |-> 0, width |-> 0, height |-> 0]
ColorError(e) == [outcome |-> e, rgb |-> <<>>, hsv |-> <<>>, x |-> 0, y |-> 0]

NoQuery == [image_id |-> 0, x |-> <<"missing", 0>>, y |-> <<"missing", 0>>]

\* a response of one of the two handlers is on its way to the client
InFlight == fOut.outcome # "none" \/ qOut.outcome # "none"

\* no request served yet
PickerIdle ==
  /\ uploaded_images = <<>>
  /\ nextId = 1
  /\ issued = {}
  /\ fOut = UploadError("none")
  /\ qReq = NoQuery
  /\ qOut = ColorError("none")

Init == PipeInit /\ ClassIdle /\ PickerIdle

\* ------------------------------------------------------------ capture_loop
\* frame = picam2.capture_array() succeeds
Cap_capture ==
  /\ capPc = "capture"
  /\ nextSeq <= MaxPub
  /\ capFrame' = capture_array
  /\ buf' = [buf EXCEPT ![capture_array] = Filled(nextSeq)]
  /\ nextSeq' = nextSeq + 1
  /\ capPc' = "acquire"
  /\ UNCHANGED <<pickVars, upVars, classVars, variant, last_frame, frame_ready, lock, published, genVars, procVars>>

\* a failure that also empties the register
Cap_fail_reset ==
  /\ capPc = "capture"
  /\ capPc' = IF variant = "opt" THEN "except" ELSE "dead"
  /\ last_frame' = None
  /\ UNCHANGED <<pickVars, upVars, classVars, variant, buf, nextSeq, capFrame, frame_ready, lock,
                 published, genVars, procVars>>

\* picam2.capture_array() raises: "opt" catches it, in "basic" the exception
\* leaves the thread's target function and the thread ends
Cap_fail ==
  /\ capPc = "capture"
  /\ capPc' = IF variant = "opt" THEN "except" ELSE "dead"
  /\ UNCHANGED <<pickVars, upVars, classVars, variant, buf, nextSeq, capFrame, last_frame, frame_ready, lock,
                 published, genVars, procVars>>

\* an error handler that also empties the register
Cap_except_reset ==
  /\ capPc = "except"
  /\ capPc' = "capture"
  /\ last_frame' = None
  /\ UNCHANGED <<pickVars, upVars, classVars, variant, buf, nextSeq, capFrame, frame_ready, lock,
                 published, genVars, procVars>>

\* an error handler that falls back to the blank pre-allocated frame_buffer
Cap_except_fallback ==
  /\ capPc = "except"
  /\ capPc' = "capture"
  /\ last_frame' = frame_buffer
  /\ UNCHANGED <<pickVars, upVars, classVars, variant, buf, nextSeq, capFrame, frame_ready, lock,
                 published, genVars, procVars>>

\* except Exception: print(...); time.sleep(0.001); back to the loop head
Cap_except ==
  /\ capPc = "except"
  /\ capPc' = "capture"
  /\ UNCHANGED <<pickVars, upVars, classVars, variant, buf, nextSeq, capFrame, last_frame, frame_ready, lock,
                 published, genVars, procVars>>

\* a capture_loop that sets frame_ready on entering the with block, before the store
Cap_acquire_set ==
  /\ capPc = "acquire"
  /\ lock = Free
  /\ lock' = CapT
  /\ capPc' = "store"
  /\ frame_ready' = (variant = "opt" \/ frame_ready)
  /\ gPc' = [g \in Streams |-> IF gPc[g] = "waiting" THEN "acquire" ELSE gPc[g]]
  /\ UNCHANGED <<pickVars, upVars, classVars, variant, buf, nextSeq, capFrame, last_frame,
                 published, gFrame, gCells, gLast, procVars>>

\* with lock:
Cap_acquire ==
  /\ capPc = "acquire"
  /\ lock = Free
  /\ lock' = CapT
  /\ capPc' = "store"
  /\ UNCHANGED <<pickVars, upVars, classVars, variant, buf, nextSeq, capFrame, last_frame, frame_ready,
                 published, genVars, procVars>>

\* a store that keeps the first frame: if last_frame is None: last_frame = frame
Cap_store_once ==
  /\ capPc = "store"
  /\ last_frame' = IF last_frame = None THEN capFrame ELSE last_frame
  /\ published' = Append(published, nextSeq - 1)
  /\ IF variant = "opt"
       THEN capPc' = "set" /\ lock' = lock
       ELSE capPc' = "capture" /\ lock' = Free
  /\ UNCHANGED <<pickVars, upVars, classVars, variant, buf, nextSeq, capFrame, frame_ready, genVars, procVars>>

\* last_frame = frame   ("basic": the with block ends here, then time.sleep(0.03))
Cap_store ==
  /\ capPc = "store"
  /\ last_frame' = capFrame
  /\ published' = Append(published, nextSeq - 1)
  /\ IF variant = "opt"
       THEN capPc' = "set" /\ lock' = lock
       ELSE capPc' = "capture" /\ lock' = Free
  /\ UNCHANGED <<pickVars, upVars, classVars, variant, buf, nextSeq, capFrame, frame_ready, genVars, procVars>>

\* frame_ready.set(): the flag is set and every thread blocked in wait() is woken,
\* then the with block ends
Cap_set ==
  /\ capPc = "set"
  /\ frame_ready' = TRUE
  /\ gPc' = [g \in Streams |-> IF gPc[g] = "waiting" THEN "acquire" ELSE gPc[g]]
  /\ lock' = Free
  /\ capPc' = "capture"
  /\ UNCHANGED <<pickVars, upVars, classVars, variant, buf, nextSeq, capFrame, last_frame, published,
                 gFrame, gCells, gLast, procVars>>

capture_loop == Cap_capture \/ Cap_fail \/ Cap_except \/ Cap_acquire \/ Cap_store \/ Cap_set

\* -------------------------------------------------------------- gen_frames
\* frame_ready.wait() finds the flag set and returns at once
G_wait_pass(g) ==
  /\ variant = "opt"
  /\ gPc[g] = "wait"
  /\ frame_ready
  /\ gPc' = [gPc EXCEPT ![g] = "acquire"]
  /\ UNCHANGED <<pickVars, upVars, classVars, variant, buf, capVars, last_frame, frame_ready, lock, published,
                 gFrame, gCells, gLast, procVars>>

\* frame_ready.wait() finds the flag clear and blocks until a later set()
G_wait_block(g) ==
  /\ variant = "opt"
  /\ gPc[g] = "wait"
  /\ ~frame_ready
  /\ gPc' = [gPc EXCEPT ![g] = "waiting"]
  /\ UNCHANGED <<pickVars, upVars, classVars, variant, buf, capVars, last_frame, frame_ready, lock, published,
                 gFrame, gCells, gLast, procVars>>

\* with lock:
G_acquire(g) ==
  /\ gPc[g] = "acquire"
  /\ lock = Free
  /\ lock' = GenT(g)
  /\ gPc' = [gPc EXCEPT ![g] = "check"]
  /\ UNCHANGED <<pickVars, upVars, classVars, variant, buf, capVars, last_frame, frame_ready, published,
                 gFrame, gCells, gLast, procVars>>

\* if last_frame is None: continue   (leaves the with block)
G_none(g) ==
  /\ gPc[g] = "check"
  /\ last_frame = None
  /\ lock' = Free
  /\ gPc' = [gPc EXCEPT ![g] = LoopHead(variant)]
  /\ UNCHANGED <<pickVars, upVars, classVars, variant, buf, capVars, last_frame, frame_ready, published,
                 gFrame, gCells, gLast, procVars>>

\* "opt": frame = last_frame.  "basic": cv2.cvtColor(last_frame, ...) starts on
\* the array last_frame refers to
G_take(g) ==
  /\ gPc[g] = "check"
  /\ last_frame # None
  /\ gFrame' = [gFrame EXCEPT ![g] = last_frame]
  /\ gCells' = [gCells EXCEPT ![g] = <<>>]
  /\ gPc' = [gPc EXCEPT ![g] = IF variant = "opt" THEN "clear" ELSE "cvtColor"]
  /\ UNCHANGED <<pickVars, upVars, classVars, variant, buf, capVars, last_frame, frame_ready, lock, published,
                 gLast, procVars>>

\* a gen_frames whose with block reaches down to the yield: the lock is kept
\* through imencode and while the client is served
G_clear_holding(g) ==
  /\ gPc[g] = "clear"
  /\ frame_ready' = FALSE
  /\ gPc' = [gPc EXCEPT ![g] = "imencode"]
  /\ UNCHANGED <<pickVars, upVars, classVars, variant, buf, capVars, last_frame, lock, published,
                 gFrame, gCells, gLast, procVars>>

\* a consumer that leaves the flag set
G_clear_omitted(g) ==
  /\ gPc[g] = "clear"
  /\ lock' = Free
  /\ gPc' = [gPc EXCEPT ![g] = "imencode"]
  /\ UNCHANGED <<pickVars, upVars, classVars, variant, buf, capVars, last_frame, frame_ready, published,
                 gFrame, gCells, gLast, procVars>>

\* frame_ready.clear(), and the with block ends
G_clear(g) ==
  /\ gPc[g] = "clear"
  /\ frame_ready' = FALSE
  /\ lock' = Free
  /\ gPc' = [gPc EXCEPT ![g] = "imencode"]
  /\ UNCHANGED <<pickVars, upVars, classVars, variant, buf, capVars, last_frame, published,
                 gFrame, gCells, gLast, procVars>>

\* a conversion that writes into the array it was given: cv2.cvtColor(frame, ..., dst=frame)
G_pixel_inplace(g) ==
  /\ gPc[g] = IF variant = "opt" THEN "imencode" ELSE "cvtColor"
  /\ Len(gCells[g]) < FrameLen
  /\ gCells' = [gCells EXCEPT ![g] = Append(@, buf[gFrame[g]][Len(@) + 1])]
  /\ buf' = [buf EXCEPT ![gFrame[g]][Len(gCells[g]) + 1] = 0]
  /\ gPc' = [gPc EXCEPT ![g] = IF Len(gCells[g]) + 1 < FrameLen THEN @
                                ELSE IF variant = "opt" THEN "yield" ELSE "imencode"]
  /\ UNCHANGED <<pickVars, upVars, classVars, variant, capVars, last_frame, frame_ready, lock, published,
                 gFrame, gLast, procVars>>

\* one cell of the frame is read: by cv2.imencode after the with block in "opt",
\* by cv2.cvtColor inside the with block in "basic"
G_pixel(g) ==
  /\ gPc[g] = IF variant = "opt" THEN "imencode" ELSE "cvtColor"
  /\ Len(gCells[g]) < FrameLen
  /\ gCells' = [gCells EXCEPT ![g] = Append(@, buf[gFrame[g]][Len(@) + 1])]
  /\ gPc' = [gPc EXCEPT ![g] = IF Len(gCells[g]) + 1 < FrameLen THEN @
                                ELSE IF variant = "opt" THEN "yield" ELSE "imencode"]
  /\ UNCHANGED <<pickVars, upVars, classVars, variant, buf, capVars, last_frame, frame_ready, lock, published,
                 gFrame, gLast, procVars>>

\* "basic": cv2.imencode('.jpg', frame) and buffer.tobytes() on the converted
\* copy, still inside the with block, which then ends
G_encode_locked(g) ==
  /\ variant = "basic"
  /\ gPc[g] = "imencode"
  /\ lock' = Free
  /\ gPc' = [gPc EXCEPT ![g] = "yield"]
  /\ UNCHANGED <<pickVars, upVars, classVars, variant, buf, capVars, last_frame, frame_ready, published,
                 gFrame, gCells, gLast, procVars>>

\* a gen_frames that clears the flag after the yield, outside the with block
G_yield_clearing(g) ==
  /\ gPc[g] = "yield"
  /\ gLast' = [gLast EXCEPT ![g] = Marker(gCells[g])]
  /\ gCells' = [gCells EXCEPT ![g] = <<>>]
  /\ gFrame' = [gFrame EXCEPT ![g] = None]
  /\ gPc' = [gPc EXCEPT ![g] = LoopHead(variant)]
  /\ frame_ready' = FALSE
  /\ UNCHANGED <<pickVars, upVars, classVars, variant, buf, capVars, last_frame, lock, published,
                 procVars>>

\* yield (b'--frame...' + jpg + ...), and the consumer pulls again
G_yield(g) ==
  /\ gPc[g] = "yield"
  /\ gLast' = [gLast EXCEPT ![g] = Marker(gCells[g])]
  /\ gCells' = [gCells EXCEPT ![g] = <<>>]
  /\ gFrame' = [gFrame EXCEPT ![g] = None]
  /\ gPc' = [gPc EXCEPT ![g] = LoopHead(variant)]
  /\ UNCHANGED <<pickVars, upVars, classVars, variant, buf, capVars, last_frame, frame_ready, lock, published,
                 procVars>>

gen_frames(g) ==
  \/ G_wait_pass(g) \/ G_wait_block(g) \/ G_acquire(g) \/ G_none(g) \/ G_take(g)
  \/ G_clear(g) \/ G_pixel(g) \/ G_encode_locked(g) \/ G_yield(g)

\* ---------------------------------------------------------- process_camera
\* a GET /process request arrives
P_call(p) ==
  /\ pPc[p] = "idle"
  /\ pPc' = [pPc EXCEPT ![p] = "acquire"]
  /\ pOut' = [pOut EXCEPT ![p] = "none"]
  /\ UNCHANGED <<pickVars, upVars, classVars, variant, buf, capVars, last_frame, frame_ready, lock, published,
                 genVars, pRef, pCells, pLast>>

\* with lock:
P_acquire(p) ==
  /\ pPc[p] = "acquire"
  /\ lock = Free
  /\ lock' = ProcT(p)
  /\ pPc' = [pPc EXCEPT ![p] = "check"]
  /\ UNCHANGED <<pickVars, upVars, classVars, variant, buf, capVars, last_frame, frame_ready, published,
                 genVars, pRef, pCells, pOut, pLast>>

\* if last_frame is None: return jsonify({"error": "No frame captured"})
P_none(p) ==
  /\ pPc[p] = "check"
  /\ last_frame = None
  /\ lock' = Free
  /\ pOut' = [pOut EXCEPT ![p] = "No frame captured"]
  /\ pPc' = [pPc EXCEPT ![p] = "idle"]
  /\ UNCHANGED <<pickVars, upVars, classVars, variant, buf, capVars, last_frame, frame_ready, published,
                 genVars, pRef, pCells, pLast>>

\* a process_camera that consumes the frame as gen_frames does: frame_ready.clear()
P_take_consuming(p) ==
  /\ pPc[p] = "check"
  /\ last_frame # None
  /\ pRef' = [pRef EXCEPT ![p] = last_frame]
  /\ pCells' = [pCells EXCEPT ![p] = <<>>]
  /\ pPc' = [pPc EXCEPT ![p] = "copy"]
  /\ frame_ready' = FALSE
  /\ UNCHANGED <<pickVars, upVars, classVars, variant, buf, capVars, last_frame, lock, published,
                 genVars, pOut, pLast>>

\* image_rgb = last_frame.copy() starts on the array last_frame refers to
P_take(p) ==
  /\ pPc[p] = "check"
  /\ last_frame # None
  /\ pRef' = [pRef EXCEPT ![p] = last_frame]
  /\ pCells' = [pCells EXCEPT ![p] = <<>>]
  /\ pPc' = [pPc EXCEPT ![p] = "copy"]
  /\ UNCHANGED <<pickVars, upVars, classVars, variant, buf, capVars, last_frame, frame_ready, lock, published,
                 genVars, pOut, pLast>>

\* one cell is copied; after the last one the with block ends
P_copy(p) ==
  /\ pPc[p] = "copy"
  /\ pCells' = [pCells EXCEPT ![p] = Append(@, buf[pRef[p]][Len(@) + 1])]
  /\ IF Len(pCells[p]) + 1 < FrameLen
       THEN pPc' = pPc /\ lock' = lock
       ELSE pPc' = [pPc EXCEPT ![p] = "calculate"] /\ lock' = Free
  /\ UNCHANGED <<pickVars, upVars, classVars, variant, buf, capVars, last_frame, frame_ready, published,
                 genVars, pRef, pOut, pLast>>

\* results = calc.calculate(image_rgb); return jsonify(results)
P_calculate(p) ==
  /\ pPc[p] = "calculate"
  /\ pOut' = [pOut EXCEPT ![p] = "results"]
  /\ pLast' = [pLast EXCEPT ![p] = Marker(pCells[p])]
  /\ pCells' = [pCells EXCEPT ![p] = <<>>]
  /\ pRef' = [pRef EXCEPT ![p] = None]
  /\ pPc' = [pPc EXCEPT ![p] = "idle"]
  /\ UNCHANGED <<pickVars, upVars, classVars, variant, buf, capVars, last_frame, frame_ready, lock, published,
                 genVars>>

process_camera(p) ==
  \/ P_call(p) \/ P_acquire(p) \/ P_none(p) \/ P_take(p) \/ P_copy(p) \/ P_calculate(p)


\* ------------------------------------ UnripePercentageCalculator.calculate
\* calc = UnripePercentageCalculator(); calc.calculate(img): a new instance gets
\* its color_ranges in __init__, and calculate starts its first _mask call
C_call(img) ==
  /\ cPc = "idle"
  /\ image' = img
  /\ color_ranges' = ConfiguredRanges
  /\ cGrp' = 1
  /\ cPc' = "mask"
  /\ result' = NoResult
  /\ UNCHANGED <<hsv, combined, masks, cKeys, counts>>
  /\ UNCHANGED <<pipeVars, upVars, pickVars>>

\* a _mask that converts in place: cv2.cvtColor(image, ..., dst=image)
M_start_inplace ==
  /\ cPc = "mask"
  /\ TotalPixels(image) > 0
  /\ hsv' = [i \in 1..TotalPixels(image) |-> RGB2HSV(image.px[i])]
  /\ image' = [image EXCEPT !.px = hsv']
  /\ combined' = [i \in 1..TotalPixels(image) |-> 0]
  /\ cKeys' = GroupKeys(cGrp)
  /\ cPc' = "loop"
  /\ UNCHANGED <<color_ranges, masks, cGrp, counts, result>>
  /\ UNCHANGED <<pipeVars, upVars, pickVars>>

\* _mask: hsv = cv2.cvtColor(image, cv2.COLOR_RGB2HSV), which raises cv2.error on
\* an empty array, then combined = np.zeros(hsv.shape[:2])
M_start ==
  /\ cPc = "mask"
  /\ IF TotalPixels(image) = 0
       THEN /\ result' = Raised("cv2.error")
            /\ image' = NoImage
            /\ cPc' = "idle"
            /\ masks' = <<>>
            /\ cGrp' = 0
            /\ UNCHANGED <<hsv, combined, cKeys>>
       ELSE /\ hsv' = [i \in 1..TotalPixels(image) |-> RGB2HSV(image.px[i])]
            /\ combined' = [i \in 1..TotalPixels(image) |-> 0]
            /\ cKeys' = GroupKeys(cGrp)
            /\ cPc' = "loop"
            /\ UNCHANGED <<image, masks, cGrp, result>>
  /\ UNCHANGED <<color_ranges, counts>>
  /\ UNCHANGED <<pipeVars, upVars, pickVars>>

\* _mask, one turn of the for loop: lower, upper = self.color_ranges[k];
\* mask = cv2.inRange(hsv, lower, upper); combined |= mask
M_range ==
  /\ cPc = "loop"
  /\ cKeys # <<>>
  /\ LET lower == color_ranges[Head(cKeys)][1]
         upper == color_ranges[Head(cKeys)][2]
     IN  combined' = [i \in DOMAIN combined |->
                        BitOr(combined[i], inRange(hsv[i], lower, upper))]
  /\ cKeys' = Tail(cKeys)
  /\ UNCHANGED <<image, color_ranges, hsv, masks, cGrp, counts, cPc, result>>
  /\ UNCHANGED <<pipeVars, upVars, pickVars>>

\* a calculate that gives every pixel to one group at most: a mask drops the
\* pixels an earlier mask already holds
M_return_exclusive ==
  /\ cPc = "loop"
  /\ cKeys = <<>>
  /\ masks' = Append(masks,
                     [i \in DOMAIN combined |->
                        IF \E g \in 1..Len(masks) : masks[g][i] # 0 THEN 0 ELSE combined[i]])
  /\ hsv' = <<>>
  /\ combined' = <<>>
  /\ IF cGrp < 3
       THEN cGrp' = cGrp + 1 /\ cPc' = "mask"
       ELSE cGrp' = 0 /\ cPc' = "count"
  /\ UNCHANGED <<image, color_ranges, cKeys, counts, result>>
  /\ UNCHANGED <<pipeVars, upVars, pickVars>>

\* _mask: return combined; calculate keeps it and calls _mask for the next group
M_return ==
  /\ cPc = "loop"
  /\ cKeys = <<>>
  /\ masks' = Append(masks, combined)
  /\ hsv' = <<>>
  /\ combined' = <<>>
  /\ IF cGrp < 3
       THEN cGrp' = cGrp + 1 /\ cPc' = "mask"
       ELSE cGrp' = 0 /\ cPc' = "count"
  /\ UNCHANGED <<image, color_ranges, cKeys, counts, result>>
  /\ UNCHANGED <<pipeVars, upVars, pickVars>>

\* calculate: total = image.shape[0] * image.shape[1]; unripe = np.sum(unripe_mask > 0);
\* ripe = ...; transitional = ...
C_count ==
  /\ cPc = "count"
  /\ counts' = [total |-> TotalPixels(image),
                unripe |-> CountNonZero(masks[1]),
                ripe |-> CountNonZero(masks[2]),
                transitional |-> CountNonZero(masks[3])]
  /\ masks' = <<>>
  /\ cPc' = "return"
  /\ UNCHANGED <<image, color_ranges, hsv, combined, cGrp, cKeys, result>>
  /\ UNCHANGED <<pipeVars, upVars, pickVars>>

\* calculate: return {"unripe_pct": round(unripe/total*100, 2), ...}; percentages
\* are kept in hundredths
C_return ==
  /\ cPc = "return"
  /\ result' = IF counts.total = 0
                 THEN Raised("division by zero")
                 ELSE Returned(Pct(counts.unripe, counts.total),
                               Pct(counts.ripe, counts.total),
                               Pct(counts.transitional, counts.total),
                               counts.total)
  /\ image' = NoImage
  /\ counts' = <<>>
  /\ cPc' = "idle"
  /\ UNCHANGED <<color_ranges, hsv, combined, masks, cGrp, cKeys>>
  /\ UNCHANGED <<pipeVars, upVars, pickVars>>

calculate ==
  \/ \E img \in Images : C_call(img)
  \/ M_start \/ M_range \/ M_return \/ C_count \/ C_return


\* ------------------------------------------------------------ upload_image
\* what a POST to /upload can carry: no "file" part, a file whose bytes are not an
\* image, a file that is an image
Uploads == {"absent", "bytes", "image"}

\* a handler without the test "if image is None": cv2.cvtColor(None, ...) raises
U_request_unchecked(f) ==
  /\ uPc = "idle"
  /\ uFile' = f
  /\ IF f = "absent"
       THEN uOut' = "No file uploaded" /\ uPc' = "idle"
       ELSE IF f = "bytes"
              THEN uOut' = "cv2.error" /\ uPc' = "idle"
              ELSE uOut' = "none" /\ uPc' = "calculate"
  /\ UNCHANGED <<pipeVars, classVars, pickVars>>

\* from the request to the first return or to the call of calculate:
\* "file" not in request.files -> "No file uploaded"; image = cv2.imdecode(...),
\* which is None for bytes that are no image -> "Invalid image";
\* else image_rgb = cv2.cvtColor(image, cv2.COLOR_BGR2RGB)
U_request(f) ==
  /\ uPc = "idle"
  /\ uFile' = f
  /\ IF f = "absent"
       THEN uOut' = "No file uploaded" /\ uPc' = "idle"
       ELSE IF f = "bytes"
              THEN uOut' = "Invalid image" /\ uPc' = "idle"
              ELSE uOut' = "none" /\ uPc' = "calculate"
  /\ UNCHANGED <<pipeVars, classVars, pickVars>>

\* results = calc.calculate(image_rgb); return jsonify(results)
U_calculate ==
  /\ uPc = "calculate"
  /\ uOut' = "results"
  /\ uPc' = "idle"
  /\ UNCHANGED uFile
  /\ UNCHANGED <<pipeVars, classVars, pickVars>>

upload_image ==
  \/ \E f \in Uploads : U_request(f)
  \/ U_calculate


\* ------------------------------------------------- hsv_picker: upload_file
\* the whole handler: the three early returns, or image_id = str(uuid.uuid4());
\* uploaded_images[image_id] = image; return image_id and dimensions
upload_file(f) ==
  /\ ~InFlight
  /\ IF f.kind = "absent" THEN
       /\ fOut' = UploadError("No file uploaded")
       /\ UNCHANGED <<uploaded_images, nextId, issued>>
     ELSE IF f.kind = "noname" THEN
       /\ fOut' = UploadError("No file selected")
       /\ UNCHANGED <<uploaded_images, nextId, issued>>
     ELSE IF f.kind = "bytes" THEN
       /\ fOut' = UploadError("Invalid image file")
       /\ UNCHANGED <<uploaded_images, nextId, issued>>
     ELSE
       /\ nextId <= MaxUploads
       /\ LET image_id == uuid4
          IN  /\ uploaded_images' =
                   [i \in DOMAIN uploaded_images \cup {image_id} |->
                      IF i = image_id THEN f.img ELSE uploaded_images[i]]
              /\ issued' = issued \cup {image_id}
              /\ fOut' = [outcome |-> "image_id", image_id |-> image_id,
                          width |-> f.img.w, height |-> f.img.h]
       /\ nextId' = nextId + 1
  /\ UNCHANGED <<qReq, qOut>>
  /\ UNCHANGED <<pipeVars, upVars, classVars>>

\* ------------------------------------ hsv_picker: get_color_at_coordinate
\* the whole handler: x = int(...), y = int(...) (an exception ends in the except
\* branch), "Image not found", "Coordinates out of bounds", or the pixel
\* image[y, x] as rgb and hsv
get_color_at_coordinate(id, rx, ry) ==
  /\ ~InFlight
  /\ qReq' = [image_id |-> id, x |-> rx, y |-> ry]
  /\ qOut' =
       IF ~CanInt(rx) \/ ~CanInt(ry) THEN ColorError("Error getting color")
       ELSE LET x == PyInt(rx)
                y == PyInt(ry)
            IN  IF id \notin DOMAIN uploaded_images THEN ColorError("Image not found")
                ELSE LET img == uploaded_images[id]
                     IN  IF x < 0 \/ x >= img.w \/ y < 0 \/ y >= img.h
                           THEN ColorError("Coordinates out of bounds")
                           ELSE LET bgr == img.px[y * img.w + x + 1]
                                    rgb == <<bgr[3], bgr[2], bgr[1]>>
                                IN  [outcome |-> "color", rgb |-> rgb,
                                     hsv |-> RGB2HSV(rgb), x |-> x, y |-> y]
  /\ UNCHANGED <<uploaded_images, nextId, issued, fOut>>
  /\ UNCHANGED <<pipeVars, upVars, classVars>>

\* return jsonify(...): the client has the response, and the handler's locals are gone
response_delivered ==
  /\ InFlight
  /\ fOut' = UploadError("none")
  /\ qReq' = NoQuery
  /\ qOut' = ColorError("none")
  /\ UNCHANGED <<uploaded_images, nextId, issued>>
  /\ UNCHANGED <<pipeVars, upVars, classVars>>


\* ================================================================ properties
Range(s) == {s[i] : i \in 1..Len(s)}

\* C1: every frame value a reader has read in full (the payload gen_frames is
\* about to yield, the image_rgb process_camera is about to classify) is one
\* publication of capture_loop in full: all its cells carry the marker of one
\* acquisition whose store has completed; never a mix, never an unpublished value.
C1_NoTornRead ==
  /\ \A g \in Streams : Len(gCells[g]) = FrameLen => Marker(gCells[g]) \in Range(published)
  /\ \A p \in Procs : Len(pCells[p]) = FrameLen => Marker(pCells[p]) \in Range(published)

\* C1 witness: a stream consumer and a process_camera call both hold a fully read
\* frame while capture_loop, which has published again since, holds the next one.
C1_Witness ==
  /\ \E g \in Streams : gPc[g] = "yield" /\ Marker(gCells[g]) < Last(published)
  /\ \E p \in Procs : pPc[p] = "calculate"
  /\ capPc = "acquire"

\* C2: a read of the register returns the frame of the last publish that completed
\* before the reader took the lock: in the step that reads last_frame the reader
\* obtains the last element of the publish history (B after A then B, never A),
\* and no publish completes while a reader holds the lock.
C2_ReadReturnsLastPublish ==
  [][ /\ \A g \in Streams : (gPc[g] = "check" /\ gPc'[g] \in {"clear", "cvtColor"})
                              => gFrame'[g] = Last(published)
      /\ \A p \in Procs : (pPc[p] = "check" /\ pPc'[p] = "copy")
                              => pRef'[p] = Last(published)
      /\ (lock \notin {Free, CapT}) => published' = published ]_vars

\* C2 witness: after two publishes a process_camera call copies the second one.
C2_Witness ==
  /\ Len(published) = 2
  /\ \E p \in Procs : pPc[p] = "copy" /\ pRef[p] = 2

\* C3: process_camera returns "No frame captured" exactly when no publish has
\* completed when it holds the lock; last_frame never becomes None again.
C3_NoFrameIffNothingPublished ==
  [][ /\ \A p \in Procs : (pPc[p] = "check" /\ pPc'[p] # "check")
            => ((pOut'[p] = "No frame captured") <=> (published = <<>>))
      /\ (last_frame # None => last_frame' # None) ]_vars

\* C3 witness: a call returned the error, and a frame has been published since.
C3_Witness ==
  \E p \in Procs : pOut[p] = "No frame captured" /\ last_frame # None

\* C4: monotonic freshness: for each consumer, the publication it obtains in a
\* read is never older than the one it obtained in its previous read (gLast, pLast:
\* the publication of the previous iteration or call; 0 before the first).
C4_MonotonicFreshness ==
  [][ /\ \A g \in Streams : (gPc[g] = "check" /\ gPc'[g] \in {"clear", "cvtColor"})
                              => gFrame'[g] >= gLast[g]
      /\ \A g \in Streams : gLast'[g] >= gLast[g]
      /\ \A p \in Procs : (pPc[p] = "check" /\ pPc'[p] = "copy") => pRef'[p] >= pLast[p]
      /\ \A p \in Procs : pLast'[p] >= pLast[p] ]_vars

\* C4 witness: a consumer that delivered publication 1 has now read publication 3
\* (it skipped 2) while a process_camera call has delivered publication 2.
C4_Witness ==
  /\ \E g \in Streams : gLast[g] = 1 /\ gFrame[g] = 3
  /\ \E p \in Procs : pLast[p] = 2

\* C5: in "opt" a stream consumer never emits a publication twice: the payload it
\* is about to yield is newer than the last one it emitted.
C5_StreamStrictlyIncreasing ==
  variant = "opt" =>
    \A g \in Streams : gPc[g] = "yield" => Marker(gCells[g]) > gLast[g]

\* C5 witness: two stream consumers are about to emit the same publication, each
\* having emitted an earlier one, while a process_camera call is in progress.
C5_Witness ==
  /\ variant = "opt"
  /\ \A g \in Streams : gPc[g] = "yield" /\ gLast[g] = 1 /\ Marker(gCells[g]) = 2
  /\ \E p \in Procs : pPc[p] = "copy"


\* C6: in "opt" no stream consumer is left blocked in frame_ready.wait() while
\* last_frame holds a publication newer than the last one it emitted (any
\* publication, if it has emitted none).  The instant between capture_loop's store
\* and its set(), where the waiters are about to be woken, is not counted.
C6_NoConsumerLeftWaiting ==
  variant = "opt" =>
    \A g \in Streams : (gPc[g] = "waiting" /\ capPc # "set")
        => (last_frame = None \/ (gLast[g] # 0 /\ last_frame <= gLast[g]))

\* C7: while a thread holds lock it only reads or replaces the last_frame
\* reference: no holder of lock is inside last_frame.copy(), cv2.cvtColor or
\* cv2.imencode.
C7_LockOnlyAroundReferenceSwap ==
  /\ \A p \in Procs : lock = ProcT(p) => pPc[p] # "copy"
  /\ \A g \in Streams : lock = GenT(g) => gPc[g] \notin {"cvtColor", "imencode"}

\* C8: capture_loop never terminates on a capture failure, in either variant.
C8_CaptureLoopNeverTerminates ==
  capPc # "dead"

\* C9: a failed acquisition leaves the register as it was: the steps of the failing
\* iteration (the raise, the handler) change neither last_frame nor frame_ready nor
\* lock nor anything of a consumer, capture_loop does not hold lock in them, and no
\* outcome of process_camera changes.
C9_FailedCaptureLeavesRegister ==
  [][ (\/ (capPc = "capture" /\ capPc' \in {"except", "dead"})
       \/ (capPc = "except" /\ capPc' = "capture"))
        => /\ last_frame' = last_frame
           /\ frame_ready' = frame_ready
           /\ published' = published
           /\ lock' = lock /\ lock # CapT
           /\ UNCHANGED <<genVars, procVars>> ]_vars

\* C9 witness: capture_loop is in its error handler, after two publishes, while a
\* process_camera call that obtained the published frame is being answered.
C9_Witness ==
  /\ capPc = "except"
  /\ last_frame = 2 /\ frame_ready
  /\ \E p \in Procs : pPc[p] = "calculate" /\ pRef[p] = 2

\* C10: every process_camera call eventually returns (a result or the no-frame
\* error), whatever capture_loop and the stream consumers do.
C10_ProcessCameraReturns ==
  \A p \in Procs : (pPc[p] = "acquire") ~> (pPc[p] = "idle")

\* C11: capture_loop's progress is never blocked by consumers: whenever it has
\* acquired a frame, it eventually stores it in last_frame (the acquisition enters
\* the publish history), in both variants.
C11_CapturedFrameIsStored ==
  \A n \in 1..MaxPub :
    (capPc = "acquire" /\ capFrame = n) ~> (n \in Range(published))

\* C12: in "opt" a stream consumer's suspension is bounded by capture cadence: a
\* consumer that is blocked in frame_ready.wait() when capture_loop publishes
\* obtains a frame and emits it, whatever the other consumers do.
C12_WaitingConsumerEmits ==
  \A g \in Streams :
    (variant = "opt" /\ gPc[g] = "waiting" /\ capPc = "set") ~> (gPc[g] = "yield")

\* ---- the classification written directly from the configured ranges
\* the HSV value x lies within the inclusive bounds of some range of group g
InGroup(x, g) ==
  \E k \in Range(GroupKeys(g)) :
    \A c \in 1..3 : ConfiguredRanges[k][1][c] <= x[c] /\ x[c] <= ConfiguredRanges[k][2][c]

\* the number of pixels of img whose HSV value lies in group g
GroupCount(img, g) ==
  Cardinality({i \in 1..TotalPixels(img) : InGroup(RGB2HSV(img.px[i]), g)})

\* what calculate returns for img, as a function of img alone
Classify(img) ==
  Returned(Pct(GroupCount(img, 1), TotalPixels(img)),
           Pct(GroupCount(img, 2), TotalPixels(img)),
           Pct(GroupCount(img, 3), TotalPixels(img)),
           img.h * img.w)

\* the step in which calculate returns its dict
CalculateReturns == cPc = "return" /\ cPc' = "idle"

\* C13: for every frame with total_pixels > 0, calculate counts for each of the
\* three groups a number of pixels between 0 and total_pixels, so each of the three
\* percentages lies in [0, 100] (0..10000 hundredths), and total_pixels equals
\* height times width.
C13_CountsAndPercentagesInRange ==
  [][(CalculateReturns /\ image.h * image.w > 0) =>
       /\ \A c \in {counts.unripe, counts.ripe, counts.transitional} :
            0 <= c /\ c <= counts.total
       /\ result'.outcome = "results"
       /\ \A q \in {result'.unripe_pct, result'.ripe_pct, result'.transitional_pct} :
            0 <= q /\ q <= 10000
       /\ result'.total_pixels = image.h * image.w]_vars

\* C13 witness: calculate has returned for a two-pixel frame of which one pixel is
\* unripe, both are ripe and one is transitional (a light red and a red pixel).
C13_Witness ==
  /\ cPc = "idle"
  /\ result = Returned(5000, 10000, 5000, 2)

\* C14: a pixel is set in the mask _mask returned for a group if and only if, for
\* at least one range of the group, each of its H, S and V values lies between that
\* range's lower and upper bound, the bounds included; a pixel outside all ranges
\* of the group is never set.
C14_MaskIsUnionOfInclusiveRanges ==
  \A g \in 1..Len(masks) : \A i \in 1..(image.h * image.w) :
    LET x == RGB2HSV(image.px[i])
    IN  (masks[g][i] # 0) <=>
          \E k \in Range(GroupKeys(g)) :
            /\ ConfiguredRanges[k][1][1] <= x[1] /\ x[1] <= ConfiguredRanges[k][2][1]
            /\ ConfiguredRanges[k][1][2] <= x[2] /\ x[2] <= ConfiguredRanges[k][2][2]
            /\ ConfiguredRanges[k][1][3] <= x[3] /\ x[3] <= ConfiguredRanges[k][2][3]

\* C14 witness: the three masks of a frame whose first pixel lies on the bounds
\* themselves (HSV (30, 255, 200): H on the lower and V on the upper bound of
\* unripe_green, H on the upper bound of transitional_yellow) and whose second
\* pixel, black, lies outside every range.
C14_Witness ==
  /\ cPc = "count"
  /\ image.px = << <<200, 200, 0>>, <<0, 0, 0>> >>
  /\ RGB2HSV(image.px[1]) = <<30, 255, 200>>
  /\ masks = << <<255, 0>>, <<0, 0>>, <<255, 0>> >>

\* C15: a frame whose pixels all have one HSV value lying inside the ranges of
\* exactly one group yields 100 for that group's percentage and 0 for the other
\* two; the 10 x 10 frame of HSV (0, 255, 255), which is the frame of pure red
\* pixels (255, 0, 0), yields ripe_pct = 100, unripe_pct = 0, transitional_pct = 0
\* and total_pixels = 100.
C15_UniformFrameIsOneGroup ==
  [][(CalculateReturns /\ image.h * image.w > 0
        /\ \A i \in DOMAIN image.px : image.px[i] = image.px[1]) =>
       LET x == RGB2HSV(image.px[1])
           pct == <<result'.unripe_pct, result'.ripe_pct, result'.transitional_pct>>
       IN  /\ \A g \in 1..3 :
                (InGroup(x, g) /\ \A o \in (1..3) \ {g} : ~InGroup(x, o)) =>
                  /\ pct[g] = 10000
                  /\ \A o \in (1..3) \ {g} : pct[o] = 0
           /\ (image.px[1] = <<255, 0, 0>> /\ image.h = 10 /\ image.w = 10) =>
                result' = Returned(0, 10000, 0, 100)]_vars

\* C15 witness: calculate has returned for the 10 x 10 frame of pure red, whose
\* HSV value is (0, 255, 255).
C15_Witness ==
  /\ cPc = "idle"
  /\ RGB2HSV(<<255, 0, 0>>) = <<0, 255, 255>>
  /\ result = Returned(0, 10000, 0, 100)

\* C16: calculate is pure and deterministic: what a call returns is a function of
\* its frame alone, whatever calls were made before and whatever the register
\* holds, so two calls on the same frame return identical results; no step of a
\* call changes the input frame, color_ranges, last_frame or frame_ready.
C16_CalculateIsPure ==
  [][/\ color_ranges' = color_ranges
     /\ (cPc # "idle" /\ classVars' # classVars) =>
          /\ last_frame' = last_frame
          /\ frame_ready' = frame_ready
          /\ buf' = buf
          /\ (cPc' # "idle") => (image' = image)
     /\ CalculateReturns => (result' = Classify(image))]_vars

\* C16 witness: a call that started before the first publish has returned its
\* results after capture_loop published and set frame_ready.
C16_Witness ==
  /\ cPc = "idle"
  /\ result.outcome = "results"
  /\ result.total_pixels = 2
  /\ last_frame # None
  /\ frame_ready

\* C17: when a frame with zero pixels (height or width 0) reaches calculate, the
\* call ends with the reported outcome InvalidFrame.
C17_ZeroPixelFrameReportsInvalidFrame ==
  [][(cPc = "mask" /\ image.h * image.w = 0 /\ cPc' = "idle") =>
       (result'.outcome = "InvalidFrame")]_vars

C19_SingleWriter ==
  [][/\ (last_frame' # last_frame) => (capPc = "store" /\ capPc' # "store")
     /\ (gFrame' # gFrame \/ gCells' # gCells \/ gLast' # gLast
           \/ procVars' # procVars \/ upVars' # upVars) =>
          (last_frame' = last_frame /\ buf' = buf)]_vars

\* C19 witness: a stream consumer has yielded a frame, process_camera and
\* upload_image have returned results, and last_frame refers to the latest publish,
\* whose buffer still carries its own marker in every cell.
C19_Witness ==
  /\ \E g \in Streams : gLast[g] >= 1
  /\ \E p \in Procs : pOut[p] = "results"
  /\ uOut = "results"
  /\ Len(published) >= 2
  /\ last_frame = Last(published)
  /\ buf[last_frame] = Filled(Last(published))

\* C20: in optimized_with_local_upload.py process_camera ignores frame_ready: its
\* read takes the latest published frame whether the flag is set or cleared, and no
\* step of process_camera changes frame_ready or a stream consumer's position.
C20_ProcessCameraIgnoresFlag ==
  [][variant = "opt" =>
       \A p \in Procs :
         /\ (pPc[p] = "check" /\ pPc'[p] = "copy") =>
              (pRef'[p] = Last(published) /\ published # <<>>)
         /\ (pPc[p] = "check" /\ pPc'[p] = "idle") => (published = <<>>)
         /\ (pPc'[p] # pPc[p] \/ pCells'[p] # pCells[p]) =>
              (frame_ready' = frame_ready /\ genVars' = genVars)]_vars

\* C20 witness: process_camera has read the latest published frame while
\* frame_ready was cleared, a stream consumer having already yielded that frame.
C20_Witness ==
  /\ variant = "opt"
  /\ ~frame_ready
  /\ \E p \in Procs : pPc[p] = "copy" /\ pRef[p] = Last(published)
  /\ \E g \in Streams : gLast[g] = Last(published)

\* the number of groups the HSV value of the RGB pixel c belongs to
GroupsOf(c) == Cardinality({g \in 1..3 : InGroup(RGB2HSV(c), g)})

\* C21: the three group masks are computed independently and are not mutually
\* exclusive: a pixel counts in every group whose ranges contain its HSV value, so
\* for a frame of one pixel the three percentages add up to 100 times the number of
\* its groups; with the configured color_ranges there is a value in more than one
\* group (sum above 100) and a value in none (sum below 100).
C21_GroupsOverlap ==
  [][(CalculateReturns /\ image.h * image.w = 1) =>
       /\ result'.unripe_pct + result'.ripe_pct + result'.transitional_pct
            = 10000 * GroupsOf(image.px[1])
       /\ (image.px[1] = <<150, 121, 115>>) =>
            result'.unripe_pct + result'.ripe_pct + result'.transitional_pct > 10000
       /\ (image.px[1] = <<0, 0, 0>>) =>
            result'.unripe_pct + result'.ripe_pct + result'.transitional_pct < 10000]_vars

\* C21 witness: calculate has returned 100 for each of the three groups for a
\* frame of one light red pixel, HSV (5, 59, 150), which lies in unripe_light_red,
\* ripe_red and transitional_light_red.
C21_Witness ==
  /\ cPc = "idle"
  /\ RGB2HSV(<<150, 121, 115>>) = <<5, 59, 150>>
  /\ GroupsOf(<<150, 121, 115>>) = 3 /\ GroupsOf(<<0, 0, 0>>) = 0
  /\ result = Returned(10000, 10000, 10000, 1)

\* C22: in optimized_with_local_upload.py, whenever frame_ready is set last_frame
\* is not None; hence a consumer that has come back from frame_ready.wait() finds
\* a frame, and the branch "if last_frame is None: continue" is never taken.
C22_ReadyImpliesFrame ==
  variant = "opt" =>
    /\ frame_ready => last_frame # None
    /\ \A g \in Streams : gPc[g] \in {"acquire", "check"} => last_frame # None
    /\ \A g \in Streams : ~ENABLED G_none(g)

\* C22 witness: a consumer has come back from wait(), holds lock and is at the
\* test of last_frame, with frame_ready still set.
C22_Witness ==
  /\ variant = "opt"
  /\ frame_ready
  /\ \E g \in Streams : gPc[g] = "check" /\ lock = GenT(g)

\* a thread that holds lock and can take a step by itself
HolderCanStep ==
  \/ \E g \in Streams : lock = GenT(g) /\ ENABLED gen_frames(g)
  \/ \E p \in Procs : lock = ProcT(p) /\ ENABLED process_camera(p)

\* C23: optimized_with_local_upload.py never deadlocks: no consumer holds lock
\* while it waits on frame_ready or is suspended at its yield, every thread that
\* holds lock can take its next step without waiting for anything, and
\* capture_loop can either take a step or waits for lock behind such a holder.
C23_NoDeadlock ==
  variant = "opt" =>
    /\ \A g \in Streams : gPc[g] \in {"wait", "waiting", "yield"} => lock # GenT(g)
    /\ \A p \in Procs : pPc[p] = "idle" => lock # ProcT(p)
    /\ lock # Free => (HolderCanStep \/ (lock = CapT /\ ENABLED capture_loop))
    /\ ENABLED capture_loop \/ (capPc = "acquire" /\ HolderCanStep)

\* C23 witness: capture_loop waits for lock, which a consumer holds just before it
\* clears frame_ready, while the other consumer is blocked in wait().
C23_Witness ==
  /\ variant = "opt"
  /\ capPc = "acquire"
  /\ ~ENABLED capture_loop
  /\ \E g \in Streams : lock = GenT(g) /\ gPc[g] = "clear"
  /\ \E g \in Streams : gPc[g] = "waiting"

\* last_frame holds a publication that no gen_frames consumer has read: none is
\* working on that frame and none has yielded it
UnreadPublication ==
  /\ last_frame # None
  /\ \A g \in Streams : gFrame[g] # last_frame /\ gLast[g] # Last(published)

\* C24: in optimized_with_local_upload.py frame_ready is changed only by a thread
\* that holds lock, and in every reachable state where no thread holds lock,
\* frame_ready is set if and only if last_frame holds a publication that no
\* gen_frames consumer has read since it was published.
C24_FlagMeansUnread ==
  /\ [](variant = "opt" /\ lock = Free => (frame_ready <=> UnreadPublication))
  /\ [][(variant = "opt" /\ frame_ready' # frame_ready) =>
          \/ lock = CapT /\ capPc = "set"
          \/ \E g \in Streams : lock = GenT(g) /\ gPc[g] = "clear"]_vars

\* C24 witness: lock is free and frame_ready is set for the second publication,
\* after a consumer read and yielded the first one.
C24_Witness ==
  /\ variant = "opt"
  /\ lock = Free
  /\ frame_ready
  /\ Len(published) = 2
  /\ \E g \in Streams : gLast[g] = published[1]

\* the step of a get_color_at_coordinate request
ColorQueried == qOut.outcome = "none" /\ qOut'.outcome # "none"

\* the request's value, taken as the number it is, lies in 0 <= v < side
RawInBounds(raw, side) == raw[1] = "num" /\ 0 <= raw[2] /\ raw[2] < 2 * side

\* C25 as stated: get_color_at_coordinate returns rgb and hsv values if and only
\* if image_id was returned by an earlier successful upload_file and the request's
\* x and y satisfy 0 <= x < width and 0 <= y < height of that image.
C25_ColorIffRequestInBounds ==
  [][ColorQueried =>
       ((qOut'.outcome = "color") <=>
          /\ qReq'.image_id \in issued
          /\ RawInBounds(qReq'.x, uploaded_images[qReq'.image_id].w)
          /\ RawInBounds(qReq'.y, uploaded_images[qReq'.image_id].h))]_vars

\* C25, amended: get_color_at_coordinate returns rgb and hsv values if and only if
\* image_id was returned by an earlier successful upload_file, int() converts the
\* request's x and y (a missing key counting as 0, a number being truncated toward
\* zero), and the converted values satisfy 0 <= x < width and 0 <= y < height of
\* that image; otherwise it returns an error outcome. Entries of uploaded_images
\* are never removed or replaced, so an image_id stays valid after later uploads
\* and queries, and get_color_at_coordinate leaves uploaded_images unchanged.
C25_ColorIffKnownImageAndInBounds ==
  [][/\ ColorQueried =>
          /\ (qOut'.outcome = "color") <=>
               /\ qReq'.image_id \in issued
               /\ CanInt(qReq'.x) /\ CanInt(qReq'.y)
               /\ 0 <= PyInt(qReq'.x) /\ PyInt(qReq'.x) < uploaded_images[qReq'.image_id].w
               /\ 0 <= PyInt(qReq'.y) /\ PyInt(qReq'.y) < uploaded_images[qReq'.image_id].h
          /\ (qOut'.outcome # "color") =>
               /\ qOut'.outcome \in {"Image not found", "Coordinates out of bounds",
                                     "Error getting color"}
               /\ qOut'.rgb = <<>> /\ qOut'.hsv = <<>>
          /\ uploaded_images' = uploaded_images
     /\ \A id \in DOMAIN uploaded_images :
          id \in DOMAIN uploaded_images' /\ uploaded_images'[id] = uploaded_images[id]
     /\ \A id \in issued : id \in DOMAIN uploaded_images' /\ id \in issued']_vars

\* C25 witness: after a second upload, a query for the first upload's image_id at
\* the in-bounds coordinate x = 1 (sent as 1.5) has returned the colour of that
\* pixel.
C25_Witness ==
  /\ issued = {1, 2}
  /\ qReq.image_id = 1
  /\ qReq.x = <<"num", 3>>
  /\ qOut.outcome = "color"
  /\ qOut.x = 1
  /\ qOut.rgb = <<0, 150, 0>>

Next ==
  \/ capture_loop
  \/ \E g \in Streams : gen_frames(g)
  \/ \E p \in Procs : process_camera(p)

Spec == Init /\ [][Next]_vars

\* Every thread that can take a step eventually takes one.  threading.Lock does
\* not say which waiter gets a released lock, so an acquire that is enabled only
\* now and then is not promised to happen: weak fairness per thread, nothing more.
FairSpec ==
  /\ Spec
  /\ WF_vars(capture_loop)
  /\ \A g \in Streams : WF_vars(gen_frames(g))
  /\ \A p \in Procs : WF_vars(process_camera(p))

\* The same with a lock that serves every waiter that keeps asking.
FairLockSpec ==
  /\ FairSpec
  /\ SF_vars(Cap_acquire)
  /\ \A g \in Streams : SF_vars(G_acquire(g))
  /\ \A p \in Procs : SF_vars(P_acquire(p))

\* ---- calculate on every frame of Images, beside a running capture_loop
ClassInit ==
  /\ PipeInit
  /\ PickerIdle
  /\ image \in Images
  /\ color_ranges = ConfiguredRanges
  /\ hsv = <<>>
  /\ combined = <<>>
  /\ masks = <<>>
  /\ cGrp = 1
  /\ cKeys = <<>>
  /\ counts = <<>>
  /\ cPc = "mask"
  /\ result = NoResult

ClassNext == calculate \/ capture_loop

ClassSpec == ClassInit /\ [][ClassNext]_vars

\* ---- the server with all its handlers: capture_loop, /video, /process, /upload
ServerNext == Next \/ upload_image

ServerSpec == Init /\ [][ServerNext]_vars

\* ---- hsv_picker.py: its two handlers on every request
PickerNext ==
  \/ \E f \in PickUploads : upload_file(f)
  \/ \E id \in RequestIds, rx \in RawCoords, ry \in RawCoords :
       get_color_at_coordinate(id, rx, ry)
  \/ response_delivered

\* hsv_picker.py is a program of its own: the camera server stays as imported
PickerInit == Init /\ variant = "opt"

PickerSpec == PickerInit /\ [][PickerNext]_vars

====
